---- MODULE Spec2Model ----
(***************************************************************************)
(* A model of raml-mocker's src/index.js: the pipeline that turns parsed  *)
(* RAML files into a flat collection of RequestMocker bundles.            *)
(*                                                                         *)
(* JavaScript strings are TLA+ strings (Len, SubSeq and \o act on them).  *)
(* JavaScript objects whose key order matters (responses, body) are       *)
(* sequences of entries in the object's iteration order.  An optional     *)
(* property is a record field that may be missing from the record.        *)
(***************************************************************************)
EXTENDS Integers, Sequences, FiniteSets, TLC

VARIABLES
    pc,             \* position of the generate call
    options,        \* the options argument of generate (Undefined when missing)
    callbackIsFn,   \* whether the callback argument is a function
    files,          \* the files async.each iterates over, as the parser sees them
    load,           \* per file: state of the raml.loadApi promise
    requestsToMock, \* generateFromFiles' accumulator (index.js:61)
    eachDone,       \* async.each: its final callback has been called
    completed,      \* async.each: iterations that called cb() without error
    callbackCalls,  \* argument lists the caller's callback was invoked with
    console,        \* diagnostics written to the console, in order
    thrown,         \* exceptions that left a handler uncaught
    reads,          \* accessor calls the caller has made on delivered bundles
    schemaMockerCalls, \* argument lists schemaMocker was invoked with, in order
    lastRead,       \* the accessor called last and the value it returned
    methodIn,       \* unit under test: a method node (SpecMethods)
    bundles,        \* unit under test: result of getRamlRequestsToMockMethods
    responsesIn,    \* unit under test: a responses map (SpecResponses)
    candidates      \* unit under test: result of getResponsesByCode

vars == <<pc, options, callbackIsFn, files, load, requestsToMock, eachDone,
          completed, callbackCalls, console, thrown,
          reads, schemaMockerCalls, lastRead,
          methodIn, bundles, responsesIn, candidates>>

accessVars == <<reads, schemaMockerCalls, lastRead>>

pipelineVars == <<pc, options, callbackIsFn, files, load, requestsToMock,
                  eachDone, completed, callbackCalls, console, thrown>>

(***************************************************************************)
(* JavaScript values                                                       *)
(***************************************************************************)
Null == [isNull |-> TRUE]
Undefined == [isUndefined |-> TRUE]
NaN == [isNaN |-> TRUE]

\* An opaque JavaScript value (an example, a parsed schema), known by name.
Obj(name) == [obj |-> name]

\* A finite JavaScript number: integer part and the digits after the point.
Num(n) == [int |-> n, frac |-> ""]

Has(rec, field) == field \in DOMAIN rec

Get(rec, field) == IF field \in DOMAIN rec THEN rec[field] ELSE Undefined

Min(S) == CHOOSE m \in S : \A n \in S : m <= n

Ch(s, i) == SubSeq(s, i, i)

Digits == {"0", "1", "2", "3", "4", "5", "6", "7", "8", "9"}

UpperChars == "ABCDEFGHIJKLMNOPQRSTUVWXYZ"

LowerChars == "abcdefghijklmnopqrstuvwxyz"

Letters == {Ch(UpperChars, i) : i \in 1..26} \cup {Ch(LowerChars, i) : i \in 1..26}

LowerCh(c) ==
    IF \E i \in 1..26 : Ch(UpperChars, i) = c
    THEN Ch(LowerChars, CHOOSE i \in 1..26 : Ch(UpperChars, i) = c)
    ELSE c

RECURSIVE ToLower(_)
ToLower(s) == IF s = "" THEN "" ELSE LowerCh(Ch(s, 1)) \o ToLower(SubSeq(s, 2, Len(s)))

\* s has word at position i.
At(s, i, word) == i >= 1 /\ i + Len(word) - 1 <= Len(s) /\ SubSeq(s, i, i + Len(word) - 1) = word

Contains(s, word) == \E i \in 1..Len(s) : At(s, i, word)

DigitVal(c) == CHOOSE d \in 0..9 : Ch("0123456789", d + 1) = c

RECURSIVE DigitsToInt(_)
DigitsToInt(s) ==
    IF s = "" THEN 0
    ELSE 10 * DigitsToInt(SubSeq(s, 1, Len(s) - 1)) + DigitVal(Ch(s, Len(s)))

RECURSIVE IntToDigits(_)
IntToDigits(n) ==
    IF n < 10 THEN Ch("0123456789", n + 1)
    ELSE IntToDigits(n \div 10) \o Ch("0123456789", (n % 10) + 1)

AllDigits(s) == \A i \in 1..Len(s) : Ch(s, i) \in Digits

RECURSIVE StripZeros(_)
StripZeros(s) ==
    IF s # "" /\ Ch(s, Len(s)) = "0" THEN StripZeros(SubSeq(s, 1, Len(s) - 1)) ELSE s

\* Number(text) for text made of letters, digits and '.': the empty string is
\* 0, a decimal literal is its value, anything else is NaN.
ToNumber(s) ==
    IF s = "" THEN Num(0)
    ELSE IF AllDigits(s) THEN Num(DigitsToInt(s))
    ELSE IF \E p \in 1..Len(s) :
                /\ Ch(s, p) = "."
                /\ AllDigits(SubSeq(s, 1, p - 1))
                /\ AllDigits(SubSeq(s, p + 1, Len(s)))
                /\ Len(s) > 1
         THEN LET p == CHOOSE q \in 1..Len(s) : Ch(s, q) = "."
              IN  [int |-> DigitsToInt(SubSeq(s, 1, p - 1)),
                   frac |-> StripZeros(SubSeq(s, p + 1, Len(s)))]
    ELSE NaN

\* String(number), as the regular expression test and a property key see it.
NumToString(n) ==
    IF n = NaN THEN "NaN"
    ELSE IntToDigits(n.int) \o (IF n.frac = "" THEN "" ELSE "." \o n.frac)

RECURSIVE FracGreater(_, _)
FracGreater(a, b) ==
    IF a = "" THEN FALSE
    ELSE IF b = "" THEN TRUE
    ELSE IF Ch(a, 1) # Ch(b, 1) THEN DigitVal(Ch(a, 1)) > DigitVal(Ch(b, 1))
    ELSE FracGreater(SubSeq(a, 2, Len(a)), SubSeq(b, 2, Len(b)))

\* a > b on finite numbers.
Greater(a, b) == a.int > b.int \/ (a.int = b.int /\ FracGreater(a.frac, b.frac))

\* JavaScript truthiness of a non-string value the program tests.
Truthy(v) == v # Null /\ v # Undefined /\ v # NaN /\ v # Num(0)

(***************************************************************************)
(* Collaborators: JSON.parse and the RequestMocker bundle                  *)
(***************************************************************************)
\* The JSON texts of the model and the value each parses to.
JsonTexts == {"{\"type\":\"object\"}", "{\"type\":\"array\"}"}

\* JSON.parse: the parsed value, or an exception for text that is not JSON.
JSONParse(text) ==
    IF text \in JsonTexts THEN [threw |-> FALSE, value |-> Obj(text)]
    ELSE [threw |-> TRUE]

\* schemaMocker(schema, formats, ramlfile) of schema.js: the fixture
\* synthesized for a schema, a value that depends on its arguments only.
schemaMocker(schema, formats, ramlfile) ==
    [fixture |-> schema, formats |-> formats, ramlfile |-> ramlfile]

\* rec with rec[field] = value, the field added when missing.
SetField(rec, field, value) ==
    [k \in DOMAIN rec \cup {field} |-> IF k = field THEN value ELSE rec[k]]

\* new RequestMocker(uri, method).  id stands for the object's identity: the
\* place (file iteration, node, method index) whose execution allocated it.
RequestMocker(id, uri, verb) ==
    [id |-> id, uri |-> uri, method |-> verb, responses |-> <<>>, examples |-> <<>>]

\* mocker.addResponse(code, mock, example)
addResponse(mocker, code, mock, example) ==
    [mocker EXCEPT
        !.responses = [c \in DOMAIN mocker.responses \cup {code} |->
                          IF c = code THEN mock ELSE mocker.responses[c]],
        !.examples = [c \in DOMAIN mocker.examples \cup {code} |->
                          IF c = code THEN example ELSE mocker.examples[c]]]

(***************************************************************************)
(* getResponsesByCode (index.js:158-189)                                   *)
(***************************************************************************)
\* The character class [A-Za-z.-0-1]: the letters, the range '.' to '0'
\* (which is '.', '/', '0'), '-' and '1'.
VendorClass == Letters \cup {".", "/", "0", "-", "1"}

\* key.match(/application\/[A-Za-z.-0-1]*\+?(json|xml)/)
MediaTypeMatches(key) ==
    \E i \in 1..Len(key) :
        /\ At(key, i, "application/")
        /\ \E j \in (i + 12)..(Len(key) + 1) :
              /\ \A k \in (i + 12)..(j - 1) : Ch(key, k) \in VendorClass
              /\ \E plus \in {"", "+"}, kind \in {"json", "xml"} :
                    At(key, j, plus \o kind)

\* response.body[key], Undefined when the body has no such key.
BodyEntry(body, key) ==
    IF \E i \in 1..Len(body) : body[i].type = key
    THEN body[CHOOSE i \in 1..Len(body) : body[i].type = key].node
    ELSE Undefined

\* The body chosen by lines 162-169: the application/json entry, replaced by
\* the first own key of response.body, in iteration order, that matches.
SelectBody(resp) ==
    LET body == IF Has(resp, "body") THEN resp.body ELSE <<>>
        json == IF Has(resp, "body") THEN BodyEntry(body, "application/json")
                ELSE Undefined
        hits == {i \in 1..Len(body) : MediaTypeMatches(body[i].type)}
    IN  IF hits = {} THEN json ELSE body[Min(hits)].node

\* CandidateOf with the push of lines 181-185 inside the try: a schema that
\* does not parse leaves the response without a candidate.
CandidateOfSkipOnThrow(entry) ==
    IF ~Truthy(entry.response) THEN <<>>
    ELSE LET body == SelectBody(entry.response)
             code == ToNumber(entry.code)
         IN  IF code # NaN /\ Truthy(body)
             THEN LET parsed == IF Has(body, "schema")
                                THEN JSONParse(body.schema)
                                ELSE [threw |-> FALSE, value |-> Undefined]
                  IN  IF parsed.threw THEN <<>>
                      ELSE <<[code |-> code, schema |-> parsed.value,
                              example |-> Get(body, "example")]>>
             ELSE <<>>

\* The candidate pushed at lines 170-185 for one entry of responses, as a
\* sequence of zero or one element.  A schema text, when present, is not the
\* empty string, so body.schema is truthy exactly when it is present.
CandidateOf(entry) ==
    IF ~Truthy(entry.response) THEN <<>>
    ELSE LET body == SelectBody(entry.response)
             code == ToNumber(entry.code)
         IN  IF code # NaN /\ Truthy(body)
             THEN LET parsed == IF Has(body, "schema")
                                THEN JSONParse(body.schema)
                                ELSE [threw |-> FALSE, value |-> Undefined]
                  IN  <<[code |-> code,
                         schema |-> IF parsed.threw THEN Null ELSE parsed.value,
                         example |-> Get(body, "example")]>>
             ELSE <<>>

RECURSIVE getResponsesByCode(_)
getResponsesByCode(responses) ==
    IF responses = <<>> THEN <<>>
    ELSE getResponsesByCode(SubSeq(responses, 1, Len(responses) - 1))
            \o CandidateOf(responses[Len(responses)])

(***************************************************************************)
(* getRamlRequestsToMockMethods (index.js:124-156)                         *)
(***************************************************************************)
\* Is2xx without the leading 2: /^\d\d\d$/.test(code)
IsThreeDigits(code) ==
    LET s == NumToString(code)
    IN  Len(s) = 3 /\ \A i \in 1..3 : Ch(s, i) \in Digits

\* /^2\d\d$/.test(code)
Is2xx(code) ==
    LET s == NumToString(code)
    IN  Len(s) = 3 /\ Ch(s, 1) = "2" /\ Ch(s, 2) \in Digits /\ Ch(s, 3) \in Digits

\* /get|post|put|delete/i.test(verb)
VerbMatches(verb) ==
    \E word \in {"get", "post", "put", "delete"} : Contains(ToLower(verb), word)

\* The closures handed to addResponse at lines 134-142.
SchemaThunk(req, formats, ramlfile) ==
    [schema |-> req.schema, formats |-> formats, ramlfile |-> ramlfile]

ExampleThunk(req) == [example |-> req.example]

\* RegisterCandidate without the comparison with the current default: every
\* 2xx candidate becomes the default, so the last one wins.
RegisterCandidateLastWins(st, req, formats, ramlfile) ==
    LET added == addResponse(st.mocker, req.code,
                             SchemaThunk(req, formats, ramlfile), ExampleThunk(req))
    IN  IF Is2xx(req.code)
        THEN [mocker |-> SetField(SetField(added, "mock", added.responses[req.code]),
                                  "example", added.examples[req.code]),
              current |-> req.code]
        ELSE [mocker |-> added, current |-> st.current]

\* One pass of the loop body at lines 133-148; st is the mocker and
\* currentMockDefaultCode before the pass.
RegisterCandidate(st, req, formats, ramlfile) ==
    LET added == addResponse(st.mocker, req.code,
                             SchemaThunk(req, formats, ramlfile), ExampleThunk(req))
    IN  IF (~Truthy(st.current) \/ Greater(st.current, req.code)) /\ Is2xx(req.code)
        THEN [mocker |-> SetField(SetField(added, "mock", added.responses[req.code]),
                                  "example", added.examples[req.code]),
              current |-> req.code]
        ELSE [mocker |-> added, current |-> st.current]

RECURSIVE RegisterAll(_, _, _, _)
RegisterAll(st, reqs, formats, ramlfile) ==
    IF reqs = <<>> THEN st
    ELSE RegisterAll(RegisterCandidate(st, Head(reqs), formats, ramlfile),
                     Tail(reqs), formats, ramlfile)

\* The bundle built for one method node at lines 128-152.
MethodMocker(id, m, uri, formats, ramlfile) ==
    LET st == RegisterAll([mocker |-> RequestMocker(id, uri, m.method), current |-> Null],
                          getResponsesByCode(m.responses), formats, ramlfile)
    IN  IF Truthy(st.current) THEN SetField(st.mocker, "defaultCode", st.current)
        ELSE st.mocker

\* The test of line 127.
MethodAccepted(m) ==
    /\ Has(m, "method") /\ m.method # ""
    /\ VerbMatches(m.method)
    /\ Has(m, "responses")

RECURSIVE MethodsFrom(_, _, _, _, _, _)
MethodsFrom(site, methods, k, uri, formats, ramlfile) ==
    IF k > Len(methods) THEN <<>>
    ELSE (IF MethodAccepted(methods[k])
          THEN <<MethodMocker(<<site, k>>, methods[k], uri, formats, ramlfile)>>
          ELSE <<>>)
         \o MethodsFrom(site, methods, k + 1, uri, formats, ramlfile)

\* The collection getRamlRequestsToMockMethods hands to its callback.  site
\* names the node being visited, for the identity of the bundles it allocates.
getRamlRequestsToMockMethods(site, definition, uri, formats, ramlfile) ==
    MethodsFrom(site, definition.methods, 1, uri, formats, ramlfile)

(***************************************************************************)
(* getRamlRequestsToMock and getRamlRequestsToMockResources                *)
(* (index.js:87-122, 191-204)                                              *)
(***************************************************************************)
RECURSIVE Uniq(_)
Uniq(seq) ==
    IF seq = <<>> THEN <<>>
    ELSE LET front == Uniq(SubSeq(seq, 1, Len(seq) - 1))
             last == seq[Len(seq)]
         IN  IF \E i \in 1..Len(front) : front[i] = last THEN front
             ELSE Append(front, last)

\* _.union(a, b): the values of a then b, each kept once.  lodash compares
\* with SameValueZero, which for objects is identity: two bundles are the
\* same value only when they are the same object (same id).
Union(a, b) == Uniq(a \o b)

\* s.replace(pattern, replacement) with a string pattern: the first occurrence.
ReplaceFirst(s, pattern, replacement) ==
    IF Contains(s, pattern)
    THEN LET i == Min({k \in 1..Len(s) : At(s, k, pattern)})
         IN  SubSeq(s, 1, i - 1) \o replacement
                \o SubSeq(s, i + Len(pattern), Len(s))
    ELSE s

\* s.replace(/\/{2,}/g, '/')
RECURSIVE CollapseSlashes(_)
CollapseSlashes(s) ==
    IF Len(s) < 2 THEN s
    ELSE IF Ch(s, 1) = "/" /\ Ch(s, 2) = "/" THEN CollapseSlashes(SubSeq(s, 2, Len(s)))
    ELSE Ch(s, 1) \o CollapseSlashes(SubSeq(s, 2, Len(s)))

\* The loop of lines 93-95 over the names of uriParameters, in order.
RECURSIVE RewriteParams(_, _)
RewriteParams(nodeURI, names) ==
    IF names = <<>> THEN nodeURI
    ELSE RewriteParams(ReplaceFirst(nodeURI, "{" \o Head(names) \o "}", ":" \o Head(names)),
                       Tail(names))

\* The uri of a node, lines 90-98.
NodeUri(definition, uri) ==
    IF Has(definition, "relativeUri") /\ definition.relativeUri # ""
    THEN CollapseSlashes(uri \o "/" \o
            RewriteParams(definition.relativeUri,
                          IF Has(definition, "uriParameters")
                          THEN definition.uriParameters ELSE <<>>))
    ELSE uri

RECURSIVE getRamlRequestsToMock(_, _, _, _, _)
RECURSIVE ResourcesFrom(_, _, _, _, _, _)

\* The loop of async.each at lines 193-197 from child k on; every child's
\* callback runs before getRamlRequestsToMock returns, so the children are
\* merged in order.
ResourcesFrom(site, resources, k, uri, formats, ramlfile) ==
    IF k > Len(resources) THEN <<>>
    ELSE Union(getRamlRequestsToMock(Append(site, k), resources[k], uri, formats, ramlfile),
               ResourcesFrom(site, resources, k + 1, uri, formats, ramlfile))

getRamlRequestsToMockResources(site, definition, uri, formats, ramlfile) ==
    Union(<<>>, ResourcesFrom(site, definition.resources, 1, uri, formats, ramlfile))

\* The collection getRamlRequestsToMock hands to its callback: the methods
\* task, then the resources task, each merged by _.union.
getRamlRequestsToMock(site, definition, uri, formats, ramlfile) ==
    LET nodeUri == NodeUri(definition, uri)
        fromMethods ==
            IF Has(definition, "methods")
            THEN getRamlRequestsToMockMethods(site, definition, nodeUri, formats, ramlfile)
            ELSE <<>>
        fromResources ==
            IF Has(definition, "resources")
            THEN getRamlRequestsToMockResources(site, definition, nodeUri, formats, ramlfile)
            ELSE <<>>
    IN  Union(Union(<<>>, fromMethods), fromResources)

(***************************************************************************)
(* Inputs                                                                  *)
(***************************************************************************)
MaxFiles == 2

MaxResponses == 3

MaxEntries == 2

MaxMedia == 2

MaxReads == 1

ValidSchema == "{\"type\":\"object\"}"

MalformedSchema == "{type: object"

\* A body map holding one media type.
BodyWith(type, name) ==
    <<[type |-> type, node |-> [schema |-> ValidSchema, example |-> Obj(name)]]>>

\* An entry of a responses map with an application/json body.
JsonResponse(code, name) ==
    [code |-> code, response |-> [body |-> BodyWith("application/json", name)]]

\* An entry of a responses map whose application/json body is node.
SchemaResponse(code, node) ==
    [code |-> code,
     response |-> [body |-> <<[type |-> "application/json", node |-> node]>>]]

Method(verb, entries) == [method |-> verb, responses |-> entries]

\* What raml.loadApi(file) settles to for each file of the model: a
\* rejection, or an api whose toJSON() is the given tree.
Disk ==
    [ping_a |->
        [parses |-> TRUE,
         data |-> [version |-> "v1",
                   resources |-> <<
                     [relativeUri |-> "/ping",
                      methods |-> <<Method("get", <<JsonResponse("200", "pong")>>)>>]>>]],
     ping_b |->
        [parses |-> TRUE,
         data |-> [resources |-> <<
                     [relativeUri |-> "/ping",
                      methods |-> <<Method("get", <<JsonResponse("503", "down")>>)>>]>>]],
     users |->
        [parses |-> TRUE,
         data |-> [version |-> "v2",
                   resources |-> <<
                     [relativeUri |-> "/users",
                      methods |-> <<Method("get", <<JsonResponse("404", "none"),
                                                    JsonResponse("200", "list")>>),
                                    Method("post", <<JsonResponse("201", "made")>>)>>,
                      resources |-> <<
                        [relativeUri |-> "/{id}",
                         uriParameters |-> <<"id">>,
                         methods |-> <<Method("get", <<JsonResponse("200", "one")>>),
                                       Method("delete", <<[code |-> "204", response |-> Null]>>),
                                       Method("patch", <<JsonResponse("200", "patched")>>)>>,
                         resources |-> <<
                           [relativeUri |-> "/orders",
                            methods |-> <<Method("get", <<JsonResponse("200", "orders")>>)>>]>>]>>]>>]],
     twice |->
        [parses |-> TRUE,
         data |-> [resources |-> <<
                     [relativeUri |-> "/ping",
                      methods |-> <<Method("get", <<JsonResponse("200", "first")>>),
                                    Method("get", <<JsonResponse("404", "second")>>)>>,
                      resources |-> <<
                        [relativeUri |-> "/status",
                         methods |-> <<Method("put", <<JsonResponse("200", "set")>>)>>]>>],
                     [relativeUri |-> "/ping/status",
                      methods |-> <<Method("put", <<JsonResponse("500", "third")>>)>>]>>]],
     odd |->
        [parses |-> TRUE,
         data |-> [resources |-> <<
                     [methods |-> <<Method("get",
                                      <<SchemaResponse("200", [schema |-> MalformedSchema,
                                                               example |-> Obj("kept")])>>)>>,
                      resources |-> <<
                        [relativeUri |-> "/{id}/copies/{id}",
                         uriParameters |-> <<"id">>,
                         methods |-> <<Method("get", <<JsonResponse("200", "copy")>>),
                                       Method("compute", <<JsonResponse("200", "sum")>>)>>]>>]>>]],
     empty |-> [parses |-> TRUE, data |-> [title |-> "empty"]],
     broken |-> [parses |-> FALSE, error |-> "unexpected token"],
     invalid |-> [parses |-> FALSE, error |-> "unknown node"]]

FileNames == DOMAIN Disk

\* The sequences of at most n pairwise distinct elements of S.
RECURSIVE DistinctSeqs(_, _)
DistinctSeqs(S, n) ==
    IF n = 0 THEN {<<>>}
    ELSE LET shorter == DistinctSeqs(S, n - 1)
             longest == {q \in shorter : Len(q) = n - 1}
             Fresh(q) == {x \in S : \A i \in 1..Len(q) : q[i] # x}
         IN  shorter \cup UNION {{Append(q, x) : x \in Fresh(q)} : q \in longest}

FileLists == DistinctSeqs(FileNames, MaxFiles)

\* The options objects of the model; glob.sync leaves a list of plain file
\* names as it is.
OptionsObjects ==
    {[files |-> q] : q \in FileLists}
        \cup {[files |-> q, useApiVersion |-> TRUE] : q \in FileLists}
        \cup {[formats |-> Obj("formats")]}

(***************************************************************************)
(* generate and generateFromFiles (index.js:12-33, 60-85)                  *)
(***************************************************************************)
Formats == IF Truthy(options) /\ Has(options, "formats") THEN options.formats ELSE Obj("{}")

UseApiVersion == Has(options, "useApiVersion") /\ options.useApiVersion

\* showUsage()
ShowUsage(out) == Append(out, "usage")

\* callback(requestsToMock) at line 82, called with the collection reqs.
Deliver(reqs) ==
    IF callbackIsFn
    THEN /\ callbackCalls' = Append(callbackCalls, <<reqs>>)
         /\ thrown' = thrown
    ELSE /\ callbackCalls' = callbackCalls
         /\ thrown' = Append(thrown, "TypeError: callback is not a function")

Init ==
    /\ pc = "called"
    /\ options \in OptionsObjects \cup {Undefined}
    /\ callbackIsFn \in BOOLEAN
    /\ files = <<>>
    /\ load = <<>>
    /\ requestsToMock = <<>>
    /\ eachDone = FALSE
    /\ completed = 0
    /\ callbackCalls = <<>>
    /\ console = <<>>
    /\ thrown = <<>>
    /\ reads = 0
    /\ schemaMockerCalls = <<>>
    /\ lastRead = Null
    /\ methodIn = Null
    /\ bundles = <<>>
    /\ responsesIn = <<>>
    /\ candidates = <<>>

\* generate(options, callback) up to its return.  With no file to load,
\* async.each calls its final callback before generateFromFiles returns, inside
\* the try of line 18.  (options.path lists a directory and continues in
\* generateFromFiles with the listing; the model passes the list as files.)
Generate ==
    /\ pc = "called"
    /\ IF ~Truthy(options)
       THEN /\ console' = ShowUsage(Append(console, "You must define a options object"))
            /\ pc' = "returned"
            /\ UNCHANGED <<files, load, eachDone, callbackCalls, thrown>>
       ELSE LET warned == IF callbackIsFn THEN console
                          ELSE ShowUsage(Append(console, "You must define a callback function"))
            IN  IF ~Has(options, "files")
                THEN /\ console' = warned
                     /\ pc' = "returned"
                     /\ UNCHANGED <<files, load, eachDone, callbackCalls, thrown>>
                ELSE /\ files' = options.files
                     /\ load' = [i \in 1..Len(options.files) |-> "pending"]
                     /\ IF options.files = <<>>
                        THEN /\ eachDone' = TRUE
                             /\ pc' = "returned"
                             /\ thrown' = thrown
                             /\ IF callbackIsFn
                                THEN /\ callbackCalls' = Append(callbackCalls, <<(<<>>)>>)
                                     /\ console' = warned
                                ELSE /\ callbackCalls' = callbackCalls
                                     /\ console' = ShowUsage(Append(warned, "A runtime error has ocurred"))
                        ELSE /\ pc' = "loading"
                             /\ console' = warned
                             /\ UNCHANGED <<eachDone, callbackCalls, thrown>>
    /\ requestsToMock' = <<>>
    /\ UNCHANGED <<options, callbackIsFn, completed, methodIn, bundles, responsesIn, candidates>>
    /\ UNCHANGED accessVars

\* RootUri with options.useApiVersion ignored.
RootUriNoVersion(i) == "/"

\* The uri the traversal of files[i] starts from, line 69.
RootUri(i) ==
    LET data == Disk[files[i]].data
    IN  "/" \o (IF UseApiVersion
                THEN (IF Has(data, "version") THEN data.version ELSE "") \o "/"
                ELSE "")

\* The collection reqs that the traversal of files[i] hands to the callback
\* of line 71: the tree of api.toJSON() walked from the base uri of line 69.
FileRequests(i) ==
    getRamlRequestsToMock(<<i>>, Disk[files[i]].data, RootUri(i), Formats, files[i])

\* LoadResolved with the final callback of async.each run after every
\* iteration instead of after the last one.
LoadResolvedDeliverEach(i) ==
    /\ pc = "loading"
    /\ load[i] = "pending"
    /\ Disk[files[i]].parses
    /\ LET merged == Union(requestsToMock, FileRequests(i))
       IN  /\ requestsToMock' = merged
           /\ completed' = completed + 1
           /\ eachDone' = (completed + 1 = Len(files))
           /\ Deliver(merged)
    /\ load' = [load EXCEPT ![i] = "resolved"]
    /\ UNCHANGED <<pc, options, callbackIsFn, files, console, methodIn, bundles, responsesIn, candidates>>
    /\ UNCHANGED accessVars

\* LoadResolved merging into the accumulator as it was when the loads were
\* started (empty) instead of as it is now: a lost update.
LoadResolvedOverwrite(i) ==
    /\ pc = "loading"
    /\ load[i] = "pending"
    /\ Disk[files[i]].parses
    /\ LET merged == Union(<<>>, FileRequests(i))
       IN  /\ requestsToMock' = merged
           /\ completed' = completed + 1
           /\ IF completed + 1 = Len(files) /\ ~eachDone
              THEN /\ eachDone' = TRUE
                   /\ Deliver(merged)
              ELSE UNCHANGED <<eachDone, callbackCalls, thrown>>
    /\ load' = [load EXCEPT ![i] = "resolved"]
    /\ UNCHANGED <<pc, options, callbackIsFn, files, console, methodIn, bundles, responsesIn, candidates>>
    /\ UNCHANGED accessVars

\* The schemaMocker calls made when line 145 stores the value of the default
\* code's closure instead of the closure.
EagerCalls(reqs) ==
    LET eager == SelectSeq(reqs, LAMBDA b : Has(b, "defaultCode") /\ Truthy(b.mock.schema))
    IN  [k \in 1..Len(eager) |->
            <<eager[k].mock.schema, eager[k].mock.formats, eager[k].mock.ramlfile>>]

\* LoadResolved building its bundles with EagerCalls.
LoadResolvedEager(i) ==
    /\ pc = "loading"
    /\ load[i] = "pending"
    /\ Disk[files[i]].parses
    /\ LET merged == Union(requestsToMock, FileRequests(i))
       IN  /\ requestsToMock' = merged
           /\ completed' = completed + 1
           /\ IF completed + 1 = Len(files) /\ ~eachDone
              THEN /\ eachDone' = TRUE
                   /\ Deliver(merged)
              ELSE UNCHANGED <<eachDone, callbackCalls, thrown>>
    /\ load' = [load EXCEPT ![i] = "resolved"]
    /\ schemaMockerCalls' = schemaMockerCalls \o EagerCalls(FileRequests(i))
    /\ UNCHANGED <<pc, options, callbackIsFn, files, console, methodIn, bundles, responsesIn, candidates>>
    /\ UNCHANGED <<reads, lastRead>>

\* The fulfilment handler of raml.loadApi(files[i]), lines 67-74, with the
\* cb() of async.each and, after the last file, its final callback.
LoadResolved(i) ==
    /\ pc = "loading"
    /\ load[i] = "pending"
    /\ Disk[files[i]].parses
    /\ LET merged == Union(requestsToMock, FileRequests(i))
       IN  /\ requestsToMock' = merged
           /\ completed' = completed + 1
           /\ IF completed + 1 = Len(files) /\ ~eachDone
              THEN /\ eachDone' = TRUE
                   /\ Deliver(merged)
              ELSE UNCHANGED <<eachDone, callbackCalls, thrown>>
    /\ load' = [load EXCEPT ![i] = "resolved"]
    /\ UNCHANGED <<pc, options, callbackIsFn, files, console, methodIn, bundles, responsesIn, candidates>>
    /\ UNCHANGED accessVars

\* LoadRejected with the error dropped: the handler calls cb() as a
\* successful iteration does.
LoadRejectedAsCompleted(i) ==
    /\ pc = "loading"
    /\ load[i] = "pending"
    /\ ~Disk[files[i]].parses
    /\ load' = [load EXCEPT ![i] = "rejected"]
    /\ completed' = completed + 1
    /\ IF completed + 1 = Len(files) /\ ~eachDone
       THEN /\ eachDone' = TRUE
            /\ Deliver(requestsToMock)
       ELSE UNCHANGED <<eachDone, callbackCalls, thrown>>
    /\ UNCHANGED <<pc, options, callbackIsFn, files, requestsToMock, console,
                   methodIn, bundles, responsesIn, candidates>>
    /\ UNCHANGED accessVars

\* The rejection handler, lines 75-77: cb(err); async.each hands the first
\* error to its final callback (lines 78-80) and ignores what follows.
LoadRejected(i) ==
    /\ pc = "loading"
    /\ load[i] = "pending"
    /\ ~Disk[files[i]].parses
    /\ load' = [load EXCEPT ![i] = "rejected"]
    /\ IF ~eachDone
       THEN /\ eachDone' = TRUE
            /\ console' = Append(console, "Error parsing: " \o Disk[files[i]].error)
       ELSE UNCHANGED <<eachDone, console>>
    /\ UNCHANGED <<pc, options, callbackIsFn, files, requestsToMock, completed,
                   callbackCalls, thrown, methodIn, bundles, responsesIn, candidates>>
    /\ UNCHANGED accessVars

\* The caller invokes getResponses()[code]() of a bundle it holds: the
\* closure of lines 134-139.
CallMock(b, code) ==
    /\ reads < MaxReads
    /\ reads' = reads + 1
    /\ LET thunk == b.responses[code]
       IN  IF Truthy(thunk.schema)
           THEN /\ schemaMockerCalls' =
                      Append(schemaMockerCalls, <<thunk.schema, thunk.formats, thunk.ramlfile>>)
                /\ lastRead' = [accessor |-> "mock", code |-> code,
                                value |-> schemaMocker(thunk.schema, thunk.formats, thunk.ramlfile)]
           ELSE /\ schemaMockerCalls' = schemaMockerCalls
                /\ lastRead' = [accessor |-> "mock", code |-> code, value |-> Null]
    /\ UNCHANGED <<pipelineVars, methodIn, bundles, responsesIn, candidates>>

\* The caller invokes getExamples()[code]() of a bundle it holds: the closure
\* of lines 140-142.
CallExample(b, code) ==
    /\ reads < MaxReads
    /\ reads' = reads + 1
    /\ lastRead' = [accessor |-> "example", code |-> code, value |-> b.examples[code].example]
    /\ UNCHANGED <<pipelineVars, schemaMockerCalls, methodIn, bundles, responsesIn, candidates>>

\* The bundles the caller's callback has received.
Received ==
    UNION {{callbackCalls[c][1][k] : k \in 1..Len(callbackCalls[c][1])} :
              c \in 1..Len(callbackCalls)}

Next ==
    \/ Generate
    \/ \E i \in 1..Len(files) : LoadResolved(i)
    \/ \E i \in 1..Len(files) : LoadRejected(i)
    \/ \E b \in Received : \E code \in DOMAIN b.responses : CallMock(b, code)

Spec == Init /\ [][Next]_vars

\* The promise of raml.loadApi(files[i]) settles and its handler runs: the
\* steps of LoadResolved(i) and LoadRejected(i), told by what they do to load.
Settles(i) ==
    /\ pc = "loading"
    /\ load[i] = "pending"
    /\ load' = [load EXCEPT ![i] = IF Disk[files[i]].parses THEN "resolved" ELSE "rejected"]

\* generate runs to its return once called, and every promise settles; a
\* caller may never read a bundle.
FairSpec ==
    /\ Init
    /\ [][Next]_vars
    /\ WF_vars(Generate)
    /\ WF_load(\E i \in 1..Len(files) : Settles(i))

(***************************************************************************)
(* getRamlRequestsToMockMethods on its own                                 *)
(***************************************************************************)
Verbs == {"get", "GET", "Post", "put", "DELETE", "patch", "PATCH", "HEAD", "OPTIONS",
          "TRACE", "compute"}

MethodCodes == {"200", "201", "204", "404", "500"}

\* The responses maps of at most MaxResponses documented codes, in every
\* order of declaration.
MethodResponses ==
    {[i \in 1..Len(q) |-> JsonResponse(q[i], q[i])] : q \in DistinctSeqs(MethodCodes, MaxResponses)}

\* The bodies of a response documented without a schema, or with a schema
\* that is not JSON.
SchemaNodes ==
    {[schema |-> MalformedSchema, example |-> Obj("kept")],
     [schema |-> MalformedSchema],
     [example |-> Obj("kept")]}

\* A response with each such body, declared before or after a 404 response
\* whose schema is JSON.
SchemaResponses ==
    UNION {{<<SchemaResponse(c, n), JsonResponse("404", "404")>>,
            <<JsonResponse("404", "404"), SchemaResponse(c, n)>>} :
              c \in {"200", "500"}, n \in SchemaNodes}

MethodNodes ==
    {Method(v, r) : v \in Verbs, r \in MethodResponses}
        \cup {[method |-> v] : v \in Verbs}
        \cup {[responses |-> r] : r \in {q \in MethodResponses : Len(q) = 1}}
        \cup {Method("get", r) : r \in SchemaResponses}

InitMethods ==
    /\ pc = "unit"
    /\ methodIn \in MethodNodes
    /\ bundles = <<>>
    /\ options = [formats |-> Obj("formats")]
    /\ callbackIsFn = TRUE
    /\ files = <<>>
    /\ load = <<>>
    /\ requestsToMock = <<>>
    /\ eachDone = FALSE
    /\ completed = 0
    /\ callbackCalls = <<>>
    /\ console = <<>>
    /\ thrown = <<>>
    /\ reads = 0
    /\ schemaMockerCalls = <<>>
    /\ lastRead = Null
    /\ responsesIn = <<>>
    /\ candidates = <<>>

\* getRamlRequestsToMockMethods on a node at /ping declaring methodIn.
CollectMethods ==
    /\ pc = "unit"
    /\ pc' = "collected"
    /\ bundles' = getRamlRequestsToMockMethods(<<1>>, [methods |-> <<methodIn>>], "/ping",
                                               Formats, "unit.raml")
    /\ UNCHANGED <<options, callbackIsFn, files, load, requestsToMock, eachDone, completed,
                   callbackCalls, console, thrown, methodIn, responsesIn, candidates>>
    /\ UNCHANGED accessVars

\* The bundles of the node under test, once collected.
Collected == {bundles[k] : k \in 1..Len(bundles)}

NextMethods ==
    \/ CollectMethods
    \/ \E b \in Collected : \E code \in DOMAIN b.responses : CallMock(b, code)
    \/ \E b \in Collected : \E code \in DOMAIN b.examples : CallExample(b, code)

SpecMethods == InitMethods /\ [][NextMethods]_vars

(***************************************************************************)
(* getResponsesByCode on its own                                           *)
(***************************************************************************)
MediaTypes == {"application/json", "application/xml", "application/vnd.acme.v2+json",
               "application/vnd.company.v1+json", "text/plain"}

\* The body maps of at most MaxMedia media types, in every key order; the
\* node of a media type carries an example named after the type.
BodyMaps ==
    {[i \in 1..Len(q) |-> BodyWith(q[i], q[i])[1]] : q \in DistinctSeqs(MediaTypes, MaxMedia)}

CodeKeys == {"200", "404", "default", "2xx", "200.5", ""}

JsonNodes ==
    {[schema |-> ValidSchema, example |-> Obj("example")],
     [schema |-> MalformedSchema, example |-> Obj("example")],
     [example |-> Obj("example")],
     [schema |-> ValidSchema]}

\* The responses paired with the code keys: an application/json body with
\* each node, null, and a response without a body.
CodeResponses ==
    {[body |-> <<[type |-> "application/json", node |-> n]>>] : n \in JsonNodes}
      \cup {Null, [description |-> "no body"]}

\* The responses maps of the model: one response with any body map, or at
\* most MaxEntries responses with distinct code keys, in every key order.
ResponsesMaps ==
    {<<[code |-> "200", response |-> [body |-> b]]>> : b \in BodyMaps}
      \cup UNION {{[i \in 1..Len(q) |-> [code |-> q[i], response |-> r[i]]] :
                     r \in [1..Len(q) -> CodeResponses]} :
                  q \in DistinctSeqs(CodeKeys, MaxEntries)}

InitResponses ==
    /\ pc = "unit"
    /\ responsesIn \in ResponsesMaps
    /\ candidates = <<>>
    /\ options = [formats |-> Obj("formats")]
    /\ callbackIsFn = TRUE
    /\ files = <<>>
    /\ load = <<>>
    /\ requestsToMock = <<>>
    /\ eachDone = FALSE
    /\ completed = 0
    /\ callbackCalls = <<>>
    /\ console = <<>>
    /\ thrown = <<>>
    /\ reads = 0
    /\ schemaMockerCalls = <<>>
    /\ lastRead = Null
    /\ methodIn = Null
    /\ bundles = <<>>

\* getResponsesByCode(responsesIn)
ExtractResponses ==
    /\ pc = "unit"
    /\ pc' = "extracted"
    /\ candidates' = getResponsesByCode(responsesIn)
    /\ UNCHANGED <<options, callbackIsFn, files, load, requestsToMock, eachDone, completed,
                   callbackCalls, console, thrown, methodIn, bundles, responsesIn>>
    /\ UNCHANGED accessVars

NextResponses == ExtractResponses

SpecResponses == InitResponses /\ [][NextResponses]_vars

(***************************************************************************)
(* Properties of the pipeline (Spec)                                       *)
(***************************************************************************)
\* The collections handed to the caller's callback so far.
Delivered == {callbackCalls[c][1] : c \in 1..Len(callbackCalls)}

SamePair(x, y) == x.uri = y.uri /\ x.method = y.method

Codes(bundle) == DOMAIN bundle.responses

\* C1: every collection delivered to the callback holds at most one bundle
\* per (uri, method) pair, pairs compared by value.
C1_OneBundlePerPair ==
    \A coll \in Delivered :
        \A i, j \in 1..Len(coll) : SamePair(coll[i], coll[j]) => i = j

\* C2: when two parsed files define the same uri and method with disjoint
\* status codes, the delivered collection holds exactly one bundle for that
\* pair and its response map has the codes of both files.
C2_CrossFileUnion ==
    \A coll \in Delivered :
        \A i, j \in 1..Len(files) :
            i # j =>
                LET ri == FileRequests(i)
                    rj == FileRequests(j)
                IN  \A a \in 1..Len(ri), b \in 1..Len(rj) :
                        SamePair(ri[a], rj[b]) /\ Codes(ri[a]) \cap Codes(rj[b]) = {} =>
                            \E k \in 1..Len(coll) :
                                /\ SamePair(coll[k], ri[a])
                                /\ Codes(ri[a]) \cup Codes(rj[b]) \subseteq Codes(coll[k])
                                /\ \A l \in 1..Len(coll) : SamePair(coll[l], ri[a]) => l = k

SomeFileFails == \E i \in 1..Len(files) : ~Disk[files[i]].parses

\* C3: when some file of the call fails to parse, the callback is never
\* invoked with a collection, whatever the order in which the loads complete.
C3_NoPartialCollection == SomeFileFails => callbackCalls = <<>>

\* A file was rejected after another one had resolved and merged its bundles,
\* with a callable callback waiting.
C3_Witness ==
    /\ callbackIsFn
    /\ requestsToMock # <<>>
    /\ \E i, j \in 1..Len(files) : load[i] = "rejected" /\ load[j] = "resolved"
    /\ \A i \in 1..Len(files) : load[i] # "pending"

\* C4: once a file of the call has failed to parse, the caller's callback has
\* received a single error value, and nothing else.
C4_ErrorReachesCallback ==
    (callbackIsFn /\ \E i \in 1..Len(files) : load[i] = "rejected") =>
        /\ Len(callbackCalls) = 1
        /\ \E i \in 1..Len(files) :
              /\ load[i] = "rejected"
              /\ callbackCalls[1] = <<"Error parsing: " \o Disk[files[i]].error>>

(***************************************************************************)
(* Properties of getRamlRequestsToMockMethods (SpecMethods)                *)
(***************************************************************************)
\* The candidates of the method node under test.
CandidatesIn ==
    IF Has(methodIn, "responses") THEN getResponsesByCode(methodIn.responses) ELSE <<>>

CandidateCodes == {CandidatesIn[i].code : i \in 1..Len(CandidatesIn)}

\* The candidate codes in 200..299.
SuccessCodes == {c \in CandidateCodes : c.frac = "" /\ c.int >= 200 /\ c.int <= 299}

CandidateFor(code) ==
    CandidatesIn[CHOOSE i \in 1..Len(CandidatesIn) : CandidatesIn[i].code = code]

\* C5: the defaultCode of a bundle is the lowest candidate code in 200..299,
\* in every order of declaration; it is set whenever there is such a code, the
\* default mock and example are the ones registered for it, and every
\* candidate code is in the response map.
C5_DefaultIsLowest2xx ==
    pc = "collected" =>
        \A k \in 1..Len(bundles) :
            LET b == bundles[k]
            IN  /\ Codes(b) = CandidateCodes
                /\ SuccessCodes # {} =>
                      /\ Has(b, "defaultCode")
                      /\ b.defaultCode = Num(Min({c.int : c \in SuccessCodes}))
                      /\ b.mock = b.responses[b.defaultCode]
                      /\ b.mock.schema = CandidateFor(b.defaultCode).schema
                      /\ b.example = b.examples[b.defaultCode]
                      /\ b.example.example = CandidateFor(b.defaultCode).example
                /\ Has(b, "defaultCode") => b.defaultCode \in SuccessCodes

\* The responses 404, 201, 200, declared in that order, gave defaultCode 200.
C5_Witness ==
    /\ pc = "collected"
    /\ Len(bundles) = 1
    /\ [i \in 1..Len(methodIn.responses) |-> methodIn.responses[i].code] = <<"404", "201", "200">>
    /\ bundles[1].defaultCode = Num(200)
    /\ Codes(bundles[1]) = {Num(404), Num(201), Num(200)}

\* C6: a method node with an allowed verb whose candidates are all outside
\* 200..299 still yields its bundle, with no defaultCode, no default mock and
\* no default example, and with every candidate code in the response map.
C6_NoDefaultWithout2xx ==
    (pc = "collected" /\ MethodAccepted(methodIn) /\ CandidateCodes # {} /\ SuccessCodes = {}) =>
        /\ Len(bundles) = 1
        /\ ~Has(bundles[1], "defaultCode")
        /\ ~Has(bundles[1], "mock")
        /\ ~Has(bundles[1], "example")
        /\ Codes(bundles[1]) = CandidateCodes

\* A method declaring only 404 and 500 gave a bundle holding both codes.
C6_Witness ==
    /\ pc = "collected"
    /\ Len(bundles) = 1
    /\ Codes(bundles[1]) = {Num(404), Num(500)}
    /\ ~Has(bundles[1], "defaultCode")

AllowedVerbs == {"get", "post", "put", "delete"}

\* C7: a method node with well-formed responses contributes a bundle only if
\* its verb, ignoring case, is exactly get, post, put or delete.
C7_OnlyAllowedVerbs ==
    (pc = "collected" /\ CandidateCodes # {} /\ bundles # <<>>) =>
        Has(methodIn, "method") /\ ToLower(methodIn.method) \in AllowedVerbs

\* C8: a method node whose responses map is absent or empty contributes no
\* bundle.
C8_NoBundleWithoutResponses ==
    (pc = "collected" /\ (~Has(methodIn, "responses") \/ methodIn.responses = <<>>)) =>
        bundles = <<>>

(***************************************************************************)
(* Properties of getResponsesByCode (SpecResponses)                        *)
(***************************************************************************)
\* The body map of the only response of responsesIn, when its code key is a
\* number.
BodyIn ==
    IF /\ Len(responsesIn) = 1
       /\ ToNumber(responsesIn[1].code) # NaN
       /\ Has(responsesIn[1].response, "body")
    THEN responsesIn[1].response.body ELSE <<>>

ExampleIn(type) == Get(BodyEntry(BodyIn, type), "example")

TypesIn == {BodyIn[i].type : i \in 1..Len(BodyIn)}

EndsWith(s, tail) == At(s, Len(s) - Len(tail) + 1, tail)

\* application/<vendor-suffix>+json or +xml, the suffix made of letters,
\* digits, dots and hyphens.
IsVendorType(type) ==
    /\ At(type, 1, "application/")
    /\ \E tail \in {"+json", "+xml"} :
          /\ EndsWith(type, tail)
          /\ Len(type) > 12 + Len(tail)
          /\ \A k \in 13..(Len(type) - Len(tail)) :
                Ch(type, k) \in Letters \cup Digits \cup {".", "-"}

IsPlainType(type) == type \in {"application/json", "application/xml"}

\* C9: a response with a vendor +json/+xml media type and no application/json
\* key yields a candidate, built from the vendor body when no other key is an
\* application type; a response with only non-matching media types yields none.
C9_VendorTypeSelected ==
    (pc = "extracted" /\ BodyIn # <<>>) =>
        /\ ("application/json" \notin TypesIn /\ \E t \in TypesIn : IsVendorType(t)) =>
              /\ Len(candidates) = 1
              /\ \A t \in TypesIn :
                    (IsVendorType(t) /\ \A u \in TypesIn \ {t} : ~IsVendorType(u) /\ ~IsPlainType(u))
                        => candidates[1].example = ExampleIn(t)
        /\ (\A t \in TypesIn : ~IsVendorType(t) /\ ~IsPlainType(t)) => candidates = <<>>

\* C10: a body with an application/json entry yields a candidate taken from
\* that entry, whatever the other matching media types and the key order.
C10_PlainJsonPreferred ==
    (pc = "extracted" /\ "application/json" \in TypesIn) =>
        /\ Len(candidates) = 1
        /\ candidates[1].example = ExampleIn("application/json")


\* The code keys of responsesIn that are integer text.
IsIntegerText(key) == key # "" /\ AllDigits(key)

\* C11: every candidate getResponsesByCode emits has an integer code that is
\* the value of a key written as an integer; a key that is not integer text
\* ("default", "2xx", "200.5", "") produces no candidate.
C11_OnlyIntegerCodes ==
    pc = "extracted" =>
        \A k \in 1..Len(candidates) :
            /\ candidates[k].code.frac = ""
            /\ \E i \in 1..Len(responsesIn) :
                  /\ IsIntegerText(responsesIn[i].code)
                  /\ candidates[k].code = Num(DigitsToInt(responsesIn[i].code))


\* The application/json body of entry i of methodIn.responses.
NodeIn(i) == methodIn.responses[i].response.body[1].node

CodeIn(i) == Num(DigitsToInt(methodIn.responses[i].code))

\* The schema text of entry i is present and is not JSON.
MalformedIn(i) == Has(NodeIn(i), "schema") /\ NodeIn(i).schema \notin JsonTexts

\* The schema value the candidate of entry i should carry.
SchemaIn(i) ==
    IF ~Has(NodeIn(i), "schema") THEN Undefined
    ELSE IF MalformedIn(i) THEN Null
    ELSE Obj(NodeIn(i).schema)

\* C12: a response whose schema text is not JSON still gets its candidate:
\* the method's bundle is built, the code's schema is null and its example is
\* the body's example, the mock accessor of the code returns null and the
\* example accessor returns the example; the other codes of the bundle carry
\* their own parsed schema and example.
C12_MalformedSchemaKept ==
    pc = "collected" /\ MethodAccepted(methodIn) =>
        /\ Len(bundles) = 1
        /\ \A i \in 1..Len(methodIn.responses) :
              /\ CodeIn(i) \in DOMAIN bundles[1].responses
              /\ bundles[1].responses[CodeIn(i)].schema = SchemaIn(i)
              /\ bundles[1].examples[CodeIn(i)].example = Get(NodeIn(i), "example")
              /\ lastRead # Null /\ lastRead.code = CodeIn(i) =>
                    IF lastRead.accessor = "example"
                    THEN lastRead.value = Get(NodeIn(i), "example")
                    ELSE IF MalformedIn(i) \/ ~Has(NodeIn(i), "schema")
                    THEN lastRead.value = Null
                    ELSE lastRead.value = schemaMocker(SchemaIn(i), Formats, "unit.raml")

\* The mock accessor of a code whose schema is not JSON has returned null, in
\* a bundle that keeps the code's example and another code's parsed schema.
C12_Witness ==
    /\ pc = "collected"
    /\ lastRead # Null
    /\ lastRead.accessor = "mock"
    /\ lastRead.value = Null
    /\ \E i, j \in 1..Len(methodIn.responses) :
          /\ MalformedIn(i)
          /\ lastRead.code = CodeIn(i)
          /\ bundles[1].examples[CodeIn(i)].example = Obj("kept")
          /\ bundles[1].responses[CodeIn(j)].schema = Obj(ValidSchema)


\* C13: every step that invokes schemaMocker is a call of the mock accessor
\* of a code of a bundle the callback has already received, and the schema it
\* passes is that code's schema and is not null; no step of generate up to
\* and including the delivery invokes it.
C13_GeneratorIsLazy ==
    [][schemaMockerCalls' # schemaMockerCalls =>
          /\ callbackCalls # <<>>
          /\ callbackCalls' = callbackCalls
          /\ reads' = reads + 1
          /\ lastRead'.accessor = "mock"
          /\ \E b \in Received :
                /\ lastRead'.code \in DOMAIN b.responses
                /\ Truthy(b.responses[lastRead'.code].schema)
                /\ schemaMockerCalls' =
                      Append(schemaMockerCalls,
                             <<b.responses[lastRead'.code].schema,
                               b.responses[lastRead'.code].formats,
                               b.responses[lastRead'.code].ramlfile>>)]_vars

\* After the delivery a caller has read the mock of a code with a schema, and
\* the generator has run once, for that schema.
C13_Witness ==
    /\ callbackCalls # <<>>
    /\ reads = 1
    /\ Len(schemaMockerCalls) = 1
    /\ schemaMockerCalls[1][1] = Obj(ValidSchema)
    /\ lastRead.value = schemaMocker(Obj(ValidSchema), Formats, schemaMockerCalls[1][3])


\* C14: every bundle of a delivered collection has a uri that starts with
\* "/" and holds no two consecutive "/".
C14_UriWellFormed ==
    \A coll \in Delivered :
        \A k \in 1..Len(coll) :
            /\ Len(coll[k].uri) > 0
            /\ Ch(coll[k].uri, 1) = "/"
            /\ ~Contains(coll[k].uri, "//")


\* s with every occurrence of pattern replaced.
RECURSIVE ReplaceAll(_, _, _)
ReplaceAll(s, pattern, replacement) ==
    IF Contains(s, pattern)
    THEN ReplaceAll(ReplaceFirst(s, pattern, replacement), pattern, replacement)
    ELSE s

\* segment with every {name} rewritten to :name, for every declared name.
RECURSIVE RewriteAll(_, _)
RewriteAll(segment, names) ==
    IF names = <<>> THEN segment
    ELSE RewriteAll(ReplaceAll(segment, "{" \o Head(names) \o "}", ":" \o Head(names)),
                    Tail(names))

\* The node reached from node by the child indexes of path, with the uri its
\* parent handed down and the uri the traversal computed for it.
RECURSIVE Visit(_, _, _)
Visit(node, uri, path) ==
    IF path = <<>>
    THEN [node |-> node, parentUri |-> uri, uri |-> NodeUri(node, uri)]
    ELSE Visit(node.resources[Head(path)], NodeUri(node, uri), Tail(path))

\* The node whose method produced bundle b.
NodeOf(b) == Visit(Disk[files[b.id[1][1]]].data, RootUri(b.id[1][1]), Tail(b.id[1]))

DeclaredParams(node) == IF Has(node, "uriParameters") THEN node.uriParameters ELSE <<>>

\* C15: the uri of a bundle of a node with a relativeUri is the parent's uri,
\* a single "/", and the relativeUri with every occurrence of every declared
\* {name} rewritten to :name; the bundle of /users, /{id}, /orders has uri
\* /users/:id/orders.
C15_EveryParamRewritten ==
    \A coll \in Delivered :
        \A k \in 1..Len(coll) :
            LET v == NodeOf(coll[k])
            IN  /\ Has(v.node, "relativeUri") =>
                     coll[k].uri =
                        CollapseSlashes(v.parentUri \o "/" \o
                            RewriteAll(v.node.relativeUri, DeclaredParams(v.node)))
                /\ files[coll[k].id[1][1]] = "users" /\ Len(coll[k].id[1]) = 4
                        /\ ~UseApiVersion =>
                     coll[k].uri = "/users/:id/orders"


\* The relativeUri segments from node down the child indexes of path, each
\* with its parameters rewritten as the traversal rewrites them, one after
\* the other.
RECURSIVE Segments(_, _)
Segments(node, path) ==
    (IF Has(node, "relativeUri")
     THEN RewriteParams(node.relativeUri, DeclaredParams(node)) ELSE "")
        \o (IF path = <<>> THEN "" ELSE Segments(node.resources[Head(path)], Tail(path)))

\* The resource path of bundle b, behind the given prefix.
PathBehind(prefix, b) ==
    CollapseSlashes(prefix \o "/" \o
                    Segments(Disk[files[b.id[1][1]]].data, Tail(b.id[1])))

DeclaredVersion(b) == Disk[files[b.id[1][1]]].data.version

HasVersion(b) == Has(Disk[files[b.id[1][1]]].data, "version")

\* C16: with useApiVersion set, every bundle of a file that declares version
\* v has the uri /v/ followed by its resource path; with useApiVersion not
\* set, every bundle's uri is its resource path, without the version.
C16_VersionPrefix ==
    \A coll \in Delivered :
        \A k \in 1..Len(coll) :
            IF UseApiVersion
            THEN HasVersion(coll[k]) =>
                    /\ At(coll[k].uri, 1, "/" \o DeclaredVersion(coll[k]) \o "/")
                    /\ coll[k].uri = PathBehind("/" \o DeclaredVersion(coll[k]), coll[k])
            ELSE /\ coll[k].uri = PathBehind("", coll[k])
                 /\ HasVersion(coll[k]) =>
                        ~At(coll[k].uri, 1, "/" \o DeclaredVersion(coll[k]) \o "/")

\* A delivery with useApiVersion set that holds the bundle of /users/{id}/orders
\* of a file declaring v2, and one of a file declaring v1.
C16_Witness ==
    /\ UseApiVersion
    /\ \E coll \in Delivered :
          \E j, k \in 1..Len(coll) :
              /\ coll[j].uri = "/v2/users/:id/orders"
              /\ coll[k].uri = "/v1/ping"


\* The bundles of a collection, as a set.
BundlesOf(coll) == {coll[k] : k \in 1..Len(coll)}

\* The bundles of all the files of the call, whatever the order of the loads.
AllFileBundles == UNION {BundlesOf(FileRequests(i)) : i \in 1..Len(files)}

\* C17: a delivered collection holds the bundles of every file of the call,
\* each once, with the uri, method, response maps and default code the file
\* list and the options give them: as a set it is the same for every order in
\* which the loads complete.
C17_OrderIndependent ==
    callbackCalls # <<>> =>
        LET all == AllFileBundles
        IN  \A coll \in Delivered :
                /\ BundlesOf(coll) = all
                /\ Len(coll) = Cardinality(all)

\* A delivery of the bundles of two files whose second file was merged first.
C17_Witness ==
    \E coll \in Delivered :
        /\ Len(files) = 2
        /\ coll[1].id[1][1] = 2
        /\ \E k \in 1..Len(coll) : coll[k].id[1][1] = 1


\* generate has been called with a callback and a list of files that all parse.
AllParse ==
    /\ callbackIsFn
    /\ Truthy(options)
    /\ Has(options, "files")
    /\ \A i \in 1..Len(options.files) : Disk[options.files[i]].parses

\* C18: when every file of the call parses, the callback is eventually
\* called; it is called at most once, with one argument, and when it has been
\* called every load has resolved and that argument is the accumulator into
\* which every file's bundles have been merged.
C18_CallbackOnceAfterAll ==
    /\ [](AllParse => <>(callbackCalls # <<>>))
    /\ [](/\ Len(callbackCalls) <= 1
          /\ callbackCalls # <<>> =>
                /\ Len(callbackCalls[1]) = 1
                /\ \A i \in 1..Len(files) : load[i] = "resolved"
                /\ completed = Len(files)
                /\ callbackCalls[1][1] = requestsToMock)

\* The callback has been called once, after the loads of two files.
C18_Witness ==
    /\ Len(callbackCalls) = 1
    /\ Len(files) = 2
    /\ \A i \in 1..Len(files) : load[i] = "resolved"
    /\ callbackCalls[1][1] # <<>>

\* The paths, as child indexes, of node and of every node below it.
RECURSIVE Paths(_)
Paths(node) ==
    {<<>>} \cup
        (IF Has(node, "resources")
         THEN UNION {{<<k>> \o p : p \in Paths(node.resources[k])} :
                        k \in 1..Len(node.resources)}
         ELSE {})

MethodsOf(node) == IF Has(node, "methods") THEN node.methods ELSE <<>>

\* A method node with an allowed verb and a responses map.
Eligible(m) ==
    /\ Has(m, "method")
    /\ ToLower(m.method) \in AllowedVerbs
    /\ Has(m, "responses")

\* C19: a delivered collection holds, for every node of every file and every
\* method of the node with an allowed verb and a responses map, a bundle with
\* the node's resolved uri and the method's verb, and every bundle it holds
\* comes from such a node and method.
C19_TraversalExact ==
    \A coll \in Delivered :
        /\ \A i \in 1..Len(files) :
              \A p \in Paths(Disk[files[i]].data) :
                  LET v == Visit(Disk[files[i]].data, RootUri(i), p)
                  IN  \A k \in 1..Len(MethodsOf(v.node)) :
                          Eligible(v.node.methods[k]) =>
                              \E b \in BundlesOf(coll) :
                                  /\ b.id = <<(<<i>> \o p), k>>
                                  /\ b.uri = v.uri
                                  /\ b.method = v.node.methods[k].method
        /\ \A b \in BundlesOf(coll) :
              /\ b.id[2] \in 1..Len(MethodsOf(NodeOf(b).node))
              /\ Eligible(NodeOf(b).node.methods[b.id[2]])
              /\ b.uri = NodeOf(b).uri
              /\ b.method = NodeOf(b).node.methods[b.id[2]].method

\* The lines written to the console, as a set.
ConsoleLines == {console[k] : k \in 1..Len(console)}

\* C20: a call without a callable callback, or without an options object,
\* reports the usage and runs none of the pipeline: no file is loaded and no
\* call of the callback is attempted.
C20_UsageErrorsRunNothing ==
    (pc # "called" /\ (~Truthy(options) \/ ~callbackIsFn)) =>
        /\ "usage" \in ConsoleLines
        /\ files = <<>>
        /\ load = <<>>
        /\ callbackCalls = <<>>
        /\ thrown = <<>>
        /\ "A runtime error has ocurred" \notin ConsoleLines

====
